---- MODULE Spec2Model ----
(***************************************************************************)
(* Model of the Vibes build server (Express handlers of server.js), of the *)
(* persistent worker that runs inside the sandbox (claude-persistent.mjs)  *)
(* and of the files the two share: the command file and the response log.  *)
(*                                                                         *)
(* Time is counted in whole seconds.  Every await of the code is a         *)
(* position (bpc, the pc of a watch tick, the worker's call in flight);    *)
(* the code between two awaits is one action.                              *)
(***************************************************************************)
EXTENDS Integers, Sequences, FiniteSets, TLC

None == "none"

\* buildId = Date.now().toString(): the id of the build requested at time t, and
\* the value of buildId while there is no build.
BuildIdAt(t) == <<t>>
NoBuildId == <<>>

\* ---------------------------------------------------------------- bounds
\* The clock stops at MaxTime seconds.
MaxTime == 16
\* Lines of output of the generation script that the build parses.
MaxGenLines == 1
\* Lines the response log of a watched sandbox can grow to.
MaxLog == 2
\* Messages the worker's queries yield in all.
MaxResp == 2
\* Follow-up requests (POST /api/send-message) made.
MaxSends == 2
\* Ticks of the watch timer that find the watch active.
MaxTicks == 2
\* Records the command file can grow to.
MaxCmds == 3
\* Cleanup requests (DELETE /api/sandbox) made.
MaxDeletes == 2
\* Seconds a build request is watched for when the clock runs from timer to timer.
MaxElapsed == 905
\* Tool calls the browser page receives.
MaxCalls == 2
\* startBuild calls the browser page makes.
MaxPosts == 2
\* Lines read from the response streams.
MaxLines == 2

\* ------------------------------------------------------ program constants
\* now - lastHeartbeat >= 14000 (ms), in seconds
HeartbeatThreshold == 14
\* setInterval(..., 15000), in seconds
HeartbeatPeriod == 15
\* const maxAttempts = 12
maxAttempts == 12

SandboxIds == {"sb1", "sb2"}
Prompts == {"", "build a page"}

VARIABLES
  \* server.js, module level
  activeBuilds,      \* keys of the Map activeBuilds
  activeSandboxes,   \* keys of the Map activeSandboxes
  claudeSessions,    \* keys of the Map claudeSessions
  envKeys,           \* E2B_API_KEY and REACT_APP_ANTHROPIC_API_KEY are both set
  now,               \* Date.now(), seconds
  \* POST /api/build-app, one request
  bpc,               \* position of the handler / of buildAppInE2B
  stream,            \* what was written to res, in order
  resEnded,          \* res.end() was called
  httpStatus,        \* status of a plain JSON answer, 0 when none
  buildId,           \* the id of the build, NoBuildId before the request
  hbActive,          \* heartbeatInterval is set
  hbDue,             \* when heartbeatInterval fires next
  lastHeartbeat,
  connected,         \* the client's connection is open
  sandbox,           \* buildAppInE2B's sandbox / sandboxId, None when undefined
  attempt,           \* readiness poll: attempt
  serverReady,
  workerStarted,     \* claude-persistent.mjs runs in the sandbox
  \* the sandbox's files
  cmdFile,           \* /tmp/claude-commands.txt of each sandbox, a sequence of lines
  respLog,           \* /tmp/claude-responses.jsonl, a sequence of lines
  html,              \* content of /home/user/app-project/index.html
  \* POST /api/send-message/:sandboxId
  sends,             \* requests whose sandbox call is pending
  sendLog,           \* answers given, in order
  \* DELETE /api/sandbox/:sandboxId
  deletes,           \* requests whose sandbox.close() is pending
  deleteLog,         \* answers given, in order
  \* GET /health and GET /api/builds
  info,              \* the last answer given
  \* VibesApp.tsx and LovableBuilder.tsx, one browser page
  buildStatus,       \* 'idle', 'pending_confirmation', 'building', 'complete'
  buildRequest,      \* {description, callId}, NoRequest when null
  confirmationStartTime, \* TRUE when a timestamp is stored, FALSE when null
  currentSessionId,  \* VibesApp's session id, "" when null
  builderSessionId,  \* LovableBuilder's sessionId, "" when null
  messages,          \* LovableBuilder's messages, in order
  previewUrl,
  accumulatedText,   \* TRUE when the accumulated text is not empty
  rendered,          \* the dependencies of the build effect at its last run
  fetches,           \* the startBuild calls made, in order, each with its reader
  toolCalls,         \* tool calls received
  linesRead,         \* lines the read loops have taken
  lastLine,          \* the line a read loop took last
  abortControllerRef, \* the startBuild call whose AbortController the ref holds, 0: null
  voiceLog,          \* what the console shows last
  requests,          \* the build requests that arrived: buildId, and whether in flight
  \* GET /api/watch/:sandboxId, one request
  wpc,               \* "idle", "notfound", "open", "closed"
  watchId,           \* req.params.sandboxId of the watch request
  wstream,           \* what was written to the watch response
  lastResponseSize,
  lastHtmlContent,
  watchActive,
  watchTimer,        \* watchInterval is set
  ticks,             \* tick callbacks whose sandbox call is pending
  tickCount,         \* tick callbacks started
  htmlReads,         \* currentHtml of every tick that read index.html, in order
  \* claude-persistent.mjs
  lastProcessedLine,
  isProcessing,
  sessionId,
  calls,             \* prompts passed to processPrompt, in order
  inflight           \* processPrompt calls that have not returned

serverVars == <<activeBuilds, activeSandboxes, claudeSessions, envKeys, now>>
buildVars == <<bpc, stream, resEnded, httpStatus, buildId, hbActive, hbDue,
               lastHeartbeat, connected, sandbox, attempt, serverReady,
               workerStarted>>
fileVars == <<cmdFile, respLog, html>>
sendVars == <<sends, sendLog>>
deleteVars == <<deletes, deleteLog>>
watchVars == <<wpc, watchId, wstream, lastResponseSize, lastHtmlContent, watchActive,
               watchTimer, ticks, tickCount, htmlReads>>
workerVars == <<lastProcessedLine, isProcessing, sessionId, calls, inflight>>
clientVars == <<buildStatus, buildRequest, confirmationStartTime, currentSessionId,
                builderSessionId, messages, previewUrl, accumulatedText, rendered,
                fetches, toolCalls, linesRead, lastLine, abortControllerRef, voiceLog>>
vars == <<serverVars, buildVars, fileVars, sendVars, deleteVars, info, clientVars, requests, watchVars,
          workerVars>>

\* An answer of GET /health (the sizes of the three Maps) or of GET /api/builds
\* (the ids of activeBuilds); NoInfo before any request.
InfoAnswer(kind, nb, ns, nc, ids) ==
  [kind |-> kind, activeBuilds |-> nb, activeSandboxes |-> ns, claudeSessions |-> nc,
   builds |-> ids]
NoInfo == InfoAnswer("none", 0, 0, 0, {})

\* useState<{description, callId} | null>(null): the null request.
NoRequest == [description |-> "", callId |-> 0]

\* The last that VibesApp and the entry of startBuild wrote to the console: a
\* voice confirmation with its 'User said:' and 'Time since confirmation:' lines,
\* the 'sendMessage called' block, 'No active session found', or another block.
Logged(line) == [line |-> line, said |-> "", elapsed |-> 0]

\* The browser page after its first render: nothing asked for, nothing shown.
Mounted ==
  /\ buildStatus = "idle"
  /\ buildRequest = NoRequest
  /\ confirmationStartTime = FALSE
  /\ currentSessionId = ""
  /\ builderSessionId = ""
  /\ messages = <<>>
  /\ previewUrl = ""
  /\ accumulatedText = FALSE
  /\ rendered = <<"idle", NoRequest, "">>
  /\ fetches = <<>>
  /\ toolCalls = 0
  /\ linesRead = 0
  /\ lastLine = [kind |-> "none", sid |-> "", url |-> ""]
  /\ abortControllerRef = 0
  /\ voiceLog = Logged("other")

\* ------------------------------------------------------------- helpers
Last(s) == s[Len(s)]

\* ------------------------------------------------------- initial state
\* State after the module of server.js was loaded: three empty Maps, no request.
Init ==
  /\ activeBuilds = {}
  /\ activeSandboxes = {}
  /\ claudeSessions = {}
  /\ envKeys \in BOOLEAN
  /\ now = 0
  /\ bpc = "idle"
  /\ stream = <<>>
  /\ resEnded = FALSE
  /\ httpStatus = 0
  /\ buildId = NoBuildId
  /\ hbActive = FALSE
  /\ hbDue = 0
  /\ lastHeartbeat = 0
  /\ connected = FALSE
  /\ sandbox = None
  /\ attempt = 0
  /\ serverReady = FALSE
  /\ workerStarted = FALSE
  /\ cmdFile = [s \in SandboxIds |-> <<>>]
  /\ respLog = <<>>
  /\ html = ""
  /\ sends = {}
  /\ sendLog = <<>>
  /\ deletes = {}
  /\ deleteLog = <<>>
  /\ info = NoInfo
  /\ Mounted
  /\ requests = <<>>
  /\ wpc = "idle"
  /\ watchId = None
  /\ wstream = <<>>
  /\ lastResponseSize = 0
  /\ lastHtmlContent = ""
  /\ watchActive = FALSE
  /\ watchTimer = FALSE
  /\ ticks = {}
  /\ tickCount = 0
  /\ htmlReads = <<>>
  /\ lastProcessedLine = 0
  /\ isProcessing = FALSE
  /\ sessionId = None
  /\ calls = <<>>
  /\ inflight = {}

\* ---------------------------------------------------------------- clock
\* The clock is read by a build request only: it runs while the request is being
\* served.  A timer that is due fires before the clock moves on.
Advance ==
  /\ bpc \notin {"idle", "rejected"}
  /\ bpc = "done" => hbActive
  /\ now < MaxTime
  /\ ~(hbActive /\ now >= hbDue)
  /\ now' = now + 1
  /\ UNCHANGED <<activeBuilds, activeSandboxes, claudeSessions, envKeys>>
  /\ UNCHANGED <<buildVars, fileVars, sendVars, deleteVars, info, clientVars, requests, watchVars, workerVars>>

\* ------------------------------------------------- POST /api/build-app
Ev(t, c) == [type |-> t, content |-> c]

\* The handler's own writes that end a request.
DoneMarker == Ev("[DONE]", "")
SuccessWrites_unordered == <<DoneMarker, Ev("complete", "")>>
SuccessWrites == <<Ev("complete", ""), DoneMarker>>
CatchWrites_fallthrough == <<Ev("error", ""), Ev("complete", ""), DoneMarker>>
CatchWrites == <<Ev("error", ""), DoneMarker>>

\* clearInterval(heartbeatInterval): the timer's state afterwards.
ClearInterval_missing(active) == active
ClearInterval(active) == FALSE

\* activeBuilds.delete(buildId)
BuildsDelete_missing(builds, id) == builds
BuildsDelete(builds, id) == builds \ {id}

\* if (!prompt) return res.status(400)...: activeBuilds.set is not reached.
RejectedBuilds_registered(builds, id) == builds \cup {id}
RejectedBuilds(builds, id) == builds

\* req.on('close') of a build: the handler does not touch activeSandboxes.
DisconnectSandboxes_closed(registry, s) == registry \ {s}
DisconnectSandboxes(registry, s) == registry

\* res.end(): whether the response is ended afterwards.
ResEnd_missing(ended) == ended
ResEnd(ended) == TRUE

\* The lines of the generation script's output that the build looks at.
GenLineKinds == {"msg", "msg_nocontent", "msg_badjson",
                 "tool", "tool_noname", "tool_badjson", "plain"}
GenOutputs == UNION {[1..n -> GenLineKinds] : n \in 0..MaxGenLines}

\* What one line of the output makes the parse loop pass to onProgress.
ParseGenLine(kind) ==
  CASE kind = "msg"  -> <<Ev("claude_message", "")>>
    [] kind = "tool" -> <<Ev("tool_use", "")>>
    [] OTHER         -> <<>>

RECURSIVE ParseGenOutput(_)
ParseGenOutput(lines) ==
  IF lines = <<>> THEN <<>>
  ELSE ParseGenLine(Head(lines)) \o ParseGenOutput(Tail(lines))

\* onProgress(message) for each message of evs: it is written and resets the
\* idle clock.  With no message nothing changes.
OnProgress(evs) ==
  /\ stream' = stream \o evs
  /\ lastHeartbeat' = IF evs = <<>> THEN lastHeartbeat ELSE now

\* The end of the handler, after buildAppInE2B returned (evs = SuccessWrites) or
\* threw (evs = CatchWrites); written is what the step wrote before.
HandlerFinish(written, evs) ==
  /\ stream' = written \o evs
  /\ resEnded' = ResEnd(resEnded)
  /\ hbActive' = ClearInterval(hbActive)
  /\ activeBuilds' = BuildsDelete(activeBuilds, buildId)
  /\ bpc' = "done"

\* The request arrives.  Without a prompt: 400 and nothing else.  Otherwise the
\* stream is opened and buildAppInE2B runs up to its first await.
BuildRequest(prompt) ==
  /\ bpc = "idle"
  /\ IF prompt = ""
     THEN /\ httpStatus' = 400
          /\ bpc' = "rejected"
          /\ activeBuilds' = RejectedBuilds(activeBuilds, BuildIdAt(now))
          /\ UNCHANGED <<stream, resEnded, buildId, hbActive, hbDue, lastHeartbeat,
                         connected>>
     ELSE /\ buildId' = BuildIdAt(now)
          /\ connected' = TRUE
          /\ hbDue' = now + HeartbeatPeriod
          /\ httpStatus' = 200
          /\ IF envKeys
             THEN /\ activeBuilds' = activeBuilds \cup {BuildIdAt(now)}
                  /\ stream' = <<Ev("connected", ""), Ev("progress", "creating")>>
                  /\ lastHeartbeat' = now
                  /\ hbActive' = TRUE
                  /\ bpc' = "create"
                  /\ UNCHANGED resEnded
             ELSE \* buildAppInE2B throws before its try: the handler's catch
                  /\ stream' = <<Ev("connected", "")>> \o CatchWrites
                  /\ lastHeartbeat' = now
                  /\ resEnded' = ResEnd(resEnded)
                  /\ hbActive' = ClearInterval(TRUE)
                  /\ activeBuilds' = BuildsDelete(activeBuilds \cup {BuildIdAt(now)},
                                                 BuildIdAt(now))
                  /\ bpc' = "done"
  /\ UNCHANGED <<activeSandboxes, claudeSessions, envKeys, now, sandbox, attempt,
                 serverReady, workerStarted>>
  /\ UNCHANGED <<fileVars, sendVars, deleteVars, info, clientVars, requests, watchVars, workerVars>>

\* buildAppInE2B's catch: a created sandbox is closed first (an await), then the
\* error is thrown on to the handler.
BuildCatch ==
  IF sandbox # None
  THEN /\ bpc' = "closing"
       /\ UNCHANGED <<activeBuilds, stream, resEnded, hbActive, lastHeartbeat>>
  ELSE HandlerFinish(stream, CatchWrites) /\ UNCHANGED lastHeartbeat

buildRest == <<httpStatus, buildId, hbDue, connected>>

\* The id of a new sandbox: one that no registered sandbox has.
FreshId == CHOOSE id \in SandboxIds : id \notin activeSandboxes

\* Sandbox.create returns the new sandbox.
CreateReturns(id) ==
  /\ bpc = "create"
  /\ id = FreshId
  /\ sandbox' = id
  /\ activeSandboxes' = activeSandboxes \cup {id}
  /\ OnProgress(<<Ev("progress", "created"), Ev("progress", "mkdir")>>)
  /\ bpc' = "mkdir"
  /\ UNCHANGED <<activeBuilds, claudeSessions, envKeys, now, resEnded, hbActive,
                 attempt, serverReady, workerStarted, buildRest>>
  /\ UNCHANGED <<fileVars, sendVars, deleteVars, info, clientVars, requests, watchVars, workerVars>>

\* A sandbox call of the build throws (or the install ends with exit code # 0).
StepThrows ==
  /\ bpc \in {"create", "mkdir", "npminit", "install", "writescript", "generate",
              "startserver", "upload", "startworker"}
  /\ BuildCatch
  /\ UNCHANGED <<activeSandboxes, claudeSessions, envKeys, now, sandbox, attempt,
                 serverReady, workerStarted, buildRest>>
  /\ UNCHANGED <<fileVars, sendVars, deleteVars, info, clientVars, requests, watchVars, workerVars>>

\* A sandbox call returns and the build goes on to its next await.
StepTable ==
  [mkdir       |-> [next |-> "npminit",     evs |-> <<Ev("progress", "npminit")>>],
   npminit     |-> [next |-> "install",     evs |-> <<Ev("progress", "install")>>],
   install     |-> [next |-> "writescript", evs |-> <<Ev("progress", "script")>>],
   writescript |-> [next |-> "generate",    evs |-> <<Ev("progress", "generating")>>],
   startserver |-> [next |-> "wait3s",      evs |-> <<Ev("progress", "waiting")>>],
   upload      |-> [next |-> "startworker", evs |-> <<>>]]

StepReturns ==
  /\ bpc \in DOMAIN StepTable
  /\ OnProgress(StepTable[bpc].evs)
  /\ bpc' = StepTable[bpc].next
  /\ UNCHANGED <<serverVars, resEnded, hbActive, sandbox, attempt, serverReady,
                 workerStarted, buildRest>>
  /\ UNCHANGED <<fileVars, sendVars, deleteVars, info, clientVars, requests, watchVars, workerVars>>

\* node generate.mjs returns: its output is parsed, then the exit code checked.
GenerateReturns(lines, exitCode) ==
  /\ bpc = "generate"
  /\ IF exitCode # 0
     THEN /\ OnProgress(ParseGenOutput(lines))
          /\ bpc' = "closing"
     ELSE /\ OnProgress(ParseGenOutput(lines) \o <<Ev("progress", "starting_server")>>)
          /\ bpc' = "startserver"
  /\ UNCHANGED <<serverVars, resEnded, hbActive, sandbox, attempt, serverReady,
                 workerStarted, buildRest>>
  /\ UNCHANGED <<fileVars, sendVars, deleteVars, info, clientVars, requests, watchVars, workerVars>>

\* The 3 s wait is over: the readiness poll starts with attempt 1.
PollStart ==
  /\ bpc = "wait3s"
  /\ attempt' = 1
  /\ serverReady' = FALSE
  /\ bpc' = "check"
  /\ UNCHANGED <<serverVars, stream, resEnded, hbActive, lastHeartbeat, sandbox,
                 workerStarted, buildRest>>
  /\ UNCHANGED <<fileVars, sendVars, deleteVars, info, clientVars, requests, watchVars, workerVars>>

\* After the loop: one progress event on the outcome, one on the next step.
AfterPoll(ready) ==
  /\ OnProgress(<<Ev("progress", IF ready THEN "ready" ELSE "warning"),
                  Ev("progress", "persistent_setup")>>)
  /\ bpc' = "upload"

\* if (attempt < maxAttempts) await new Promise(resolve => setTimeout(resolve, 5000)),
\* and the loop's attempt <= maxAttempts after attempt++
PollAgain_more(a) == a < maxAttempts + 1
PollAgain(a) == a < maxAttempts

\* One check of the readiness poll returns status 200, another status, or throws.
PollCheck(result) ==
  /\ bpc = "check"
  /\ IF result = "200"
     THEN /\ serverReady' = TRUE
          /\ AfterPoll(TRUE)
     ELSE /\ UNCHANGED serverReady
          /\ IF PollAgain(attempt)
             THEN /\ bpc' = "sleep"
                  /\ UNCHANGED <<stream, lastHeartbeat>>
             ELSE AfterPoll(FALSE)
  /\ UNCHANGED <<serverVars, resEnded, hbActive, sandbox, attempt, workerStarted,
                 buildRest>>
  /\ UNCHANGED <<fileVars, sendVars, deleteVars, info, clientVars, requests, watchVars, workerVars>>

\* The 5 s wait between two checks is over.
PollSleep ==
  /\ bpc = "sleep"
  /\ attempt' = attempt + 1
  /\ bpc' = "check"
  /\ UNCHANGED <<serverVars, stream, resEnded, hbActive, lastHeartbeat, sandbox,
                 serverReady, workerStarted, buildRest>>
  /\ UNCHANGED <<fileVars, sendVars, deleteVars, info, clientVars, requests, watchVars, workerVars>>

\* The persistent worker was started: the session is stored, buildAppInE2B
\* returns and the handler writes complete and the terminal marker.
WorkerStarted ==
  /\ bpc = "startworker"
  /\ claudeSessions' = claudeSessions \cup {sandbox}
  /\ workerStarted' = TRUE
  /\ lastHeartbeat' = now
  /\ HandlerFinish(stream \o <<Ev("progress", "persistent_ready"),
                               Ev("progress", "preview")>>, SuccessWrites)
  /\ UNCHANGED <<activeSandboxes, envKeys, now, sandbox, attempt, serverReady,
                 buildRest>>
  /\ UNCHANGED <<fileVars, sendVars, deleteVars, info, clientVars, requests, watchVars, workerVars>>

\* sandbox.close() of buildAppInE2B's catch returns (the sandbox is unregistered)
\* or throws (it stays registered); the error then reaches the handler's catch.
CloseReturns(ok) ==
  /\ bpc = "closing"
  /\ activeSandboxes' = IF ok THEN activeSandboxes \ {sandbox} ELSE activeSandboxes
  /\ HandlerFinish(stream, CatchWrites)
  /\ UNCHANGED <<claudeSessions, envKeys, now, lastHeartbeat, sandbox, attempt,
                 serverReady, workerStarted, buildRest>>
  /\ UNCHANGED <<fileVars, sendVars, deleteVars, info, clientVars, requests, watchVars, workerVars>>

\* heartbeatInterval fires.
Heartbeat ==
  /\ hbActive
  /\ now >= hbDue
  /\ hbDue' = now + HeartbeatPeriod
  /\ IF now - lastHeartbeat >= HeartbeatThreshold
     THEN /\ stream' = Append(stream, Ev("heartbeat", ""))
          /\ lastHeartbeat' = now
     ELSE UNCHANGED <<stream, lastHeartbeat>>
  /\ UNCHANGED <<serverVars, bpc, resEnded, httpStatus, buildId, hbActive, connected,
                 sandbox, attempt, serverReady, workerStarted>>
  /\ UNCHANGED <<fileVars, sendVars, deleteVars, info, clientVars, requests, watchVars, workerVars>>

\* req.on('close'): the client's connection is closed.
BuildDisconnect ==
  /\ connected
  /\ connected' = FALSE
  /\ hbActive' = ClearInterval(hbActive)
  /\ activeBuilds' = BuildsDelete(activeBuilds, buildId)
  /\ activeSandboxes' = DisconnectSandboxes(activeSandboxes, sandbox)
  /\ UNCHANGED <<claudeSessions, envKeys, now, bpc, stream, resEnded,
                 httpStatus, buildId, hbDue, lastHeartbeat, sandbox, attempt,
                 serverReady, workerStarted>>
  /\ UNCHANGED <<fileVars, sendVars, deleteVars, info, clientVars, requests, watchVars, workerVars>>

BuildStep ==
  \/ \E id \in SandboxIds : CreateReturns(id)
  \/ StepThrows
  \/ StepReturns
  \/ \E lines \in GenOutputs, exitCode \in {0, 1} : GenerateReturns(lines, exitCode)
  \/ PollStart
  \/ \E result \in {"200", "000", "throws"} : PollCheck(result)
  \/ PollSleep
  \/ WorkerStarted
  \/ \E ok \in BOOLEAN : CloseReturns(ok)

NextBuild ==
  \/ \E prompt \in Prompts : BuildRequest(prompt)
  \/ BuildStep
  \/ Heartbeat
  \/ BuildDisconnect
  \/ Advance

SpecBuild == Init /\ [][NextBuild]_vars

\* ------------------------------------------- req.setTimeout(900000)
\* The timeout of the request's socket, in seconds: the socket is destroyed when
\* nothing was read or written on it for this long.  No 'timeout' listener is
\* registered, so all that a timeout runs is the handler of 'close'.
RequestTimeout == 900

\* The time at which the next timer is due: the heartbeat interval, or the idle
\* timeout of the socket, counted from the last write on the stream.
SocketDue == lastHeartbeat + RequestTimeout
NextDue == IF connected /\ SocketDue < hbDue THEN SocketDue ELSE hbDue

\* The clock moves on to the next timer while the request is being served.  The
\* heartbeat runs on its own (Heartbeat); the idle timeout destroys the socket.
Elapse ==
  /\ hbActive
  /\ now < NextDue
  /\ NextDue <= MaxElapsed
  /\ now' = NextDue
  /\ IF connected /\ NextDue = SocketDue
     THEN /\ connected' = FALSE
          /\ hbActive' = ClearInterval(hbActive)
          /\ activeBuilds' = BuildsDelete(activeBuilds, buildId)
     ELSE UNCHANGED <<connected, hbActive, activeBuilds>>
  /\ UNCHANGED <<activeSandboxes, claudeSessions, envKeys, bpc, stream, resEnded,
                 httpStatus, buildId, hbDue, lastHeartbeat, sandbox, attempt,
                 serverReady, workerStarted>>
  /\ UNCHANGED <<fileVars, sendVars, deleteVars, info, clientVars, requests, watchVars, workerVars>>

\* A build whose sandbox is created and whose next call fails, watched over the
\* whole length of the request timeout.
NextBuildTimers ==
  \/ \E prompt \in Prompts : BuildRequest(prompt)
  \/ \E id \in SandboxIds : CreateReturns(id)
  \/ StepThrows
  \/ \E ok \in BOOLEAN : CloseReturns(ok)
  \/ Heartbeat
  \/ Elapse
  \/ BuildDisconnect

SpecBuildTimers == Init /\ [][NextBuildTimers]_vars

\* Every sandbox call and every wait of the build returns or throws in the end.
SpecBuildFair == SpecBuild /\ WF_vars(BuildStep)


\* ------------------------------------------------- after a finished build
\* The events of a build in which every sandbox call succeeded and the HTTP
\* server answered the first check.
ServedStream ==
  <<Ev("connected", ""), Ev("progress", "creating"), Ev("progress", "created"),
    Ev("progress", "mkdir"), Ev("progress", "npminit"), Ev("progress", "install"),
    Ev("progress", "script"), Ev("progress", "generating"),
    Ev("progress", "starting_server"), Ev("progress", "waiting"),
    Ev("progress", "ready"), Ev("progress", "persistent_setup"),
    Ev("progress", "persistent_ready"), Ev("progress", "preview"),
    Ev("complete", ""), DoneMarker>>

\* The server after one successful build of sandbox sb1 (SpecBuild reaches this
\* state): the sandbox is registered, its worker runs, its command file and
\* response log are empty.
Serving ==
  /\ activeBuilds = {}
  /\ activeSandboxes = {"sb1"}
  /\ claudeSessions = {"sb1"}
  /\ envKeys = TRUE
  /\ now = 0
  /\ bpc = "done"
  /\ stream = ServedStream
  /\ resEnded = TRUE
  /\ httpStatus = 200
  /\ buildId = BuildIdAt(0)
  /\ hbActive = FALSE
  /\ hbDue = HeartbeatPeriod
  /\ lastHeartbeat = 0
  /\ connected = TRUE
  /\ sandbox = "sb1"
  /\ attempt = 1
  /\ serverReady = TRUE
  /\ workerStarted = TRUE
  /\ cmdFile = [s \in SandboxIds |-> <<>>]
  /\ respLog = <<>>
  /\ sends = {}
  /\ sendLog = <<>>
  /\ deletes = {}
  /\ deleteLog = <<>>
  /\ info = NoInfo
  /\ Mounted
  /\ requests = <<>>
  /\ wpc = "idle"
  /\ watchId = None
  /\ wstream = <<>>
  /\ lastResponseSize = 0
  /\ lastHtmlContent = ""
  /\ watchActive = FALSE
  /\ watchTimer = FALSE
  /\ ticks = {}
  /\ tickCount = 0
  /\ htmlReads = <<>>
  /\ lastProcessedLine = 0
  /\ isProcessing = FALSE
  /\ sessionId = None
  /\ calls = <<>>
  /\ inflight = {}

InitServing == Serving /\ html = ""

\* ------------------------------------------------ claude-persistent.mjs
\* A line of the command file.  kind says what JSON.parse and command.prompt
\* make of it:
\*   ok         {"prompt": "<non-empty string>", ...}
\*   badjson    not JSON: JSON.parse throws
\*              (or the JSON value null: reading command.prompt throws)
\*   noprompt   JSON without a prompt, or with a falsy one
\*   nonstring  JSON whose prompt is truthy and not a string: prompt.substring throws
\*   blank      empty or only white space
CmdPrompts == {"p1", "p2"}
CmdLine(k, p) == [kind |-> k, prompt |-> p]
CmdLines ==
  {CmdLine("ok", p) : p \in CmdPrompts}
    \cup {CmdLine(k, "") : k \in {"badjson", "noprompt", "blank"}}
    \cup {CmdLine("nonstring", "42")}

\* content.trim().split('\n').filter(l => l.trim())
NonBlank(file) == SelectSeq(file, LAMBDA l : l.kind # "blank")

\* if (isProcessing) return
TickBusy_ignored(flag) == FALSE
TickBusy(flag) == flag

\* lastProcessedLine++
NextLine_stay(n) == n
NextLine(n) == n + 1

\* The messages a query() yields.
MsgTypes == {"system_init", "text", "result"}
SessionIds == {"sid1", "sid2"}

\* if (message.type === 'system' && message.subtype === 'init' &&
\*     message.session_id) sessionId = message.session_id
Capture_firstOnly(old, type, sid) ==
  IF type = "system_init" /\ sid # None /\ old = None THEN sid ELSE old
Capture(old, type, sid) == IF type = "system_init" /\ sid # None THEN sid ELSE old

\* Something else than the server appends a line to the command file.
AppendLine(line) ==
  /\ workerStarted
  /\ Len(cmdFile[sandbox]) < MaxCmds
  /\ cmdFile' = [cmdFile EXCEPT ![sandbox] = Append(@, line)]
  /\ UNCHANGED <<respLog, html>>
  /\ UNCHANGED <<serverVars, buildVars, sendVars, deleteVars, info, clientVars, requests, watchVars, workerVars>>

\* One run of the setInterval callback, up to its await (if any).
WorkerTick ==
  /\ workerStarted
  /\ LET lines == NonBlank(cmdFile[sandbox]) IN
     IF TickBusy(isProcessing) \/ ~(Len(lines) > lastProcessedLine)
     THEN UNCHANGED <<lastProcessedLine, isProcessing, calls, inflight>>
     ELSE LET newLine == lines[lastProcessedLine + 1] IN
       CASE newLine.kind = "badjson" ->
              \* catch (parseError): skip bad line
              /\ lastProcessedLine' = NextLine(lastProcessedLine)
              /\ UNCHANGED <<isProcessing, calls, inflight>>
         [] newLine.kind = "noprompt" ->
              \* if (command.prompt) is false: nothing is done
              UNCHANGED <<lastProcessedLine, isProcessing, calls, inflight>>
         [] newLine.kind = "nonstring" ->
              \* processPrompt throws before its try; the tick's catch skips the
              \* line and isProcessing keeps the value true
              /\ isProcessing' = TRUE
              /\ calls' = Append(calls, newLine.prompt)
              /\ lastProcessedLine' = NextLine(lastProcessedLine)
              /\ UNCHANGED inflight
         [] newLine.kind = "ok" ->
              \* processPrompt runs up to the first await of its for-await loop
              /\ Len(calls) < MaxCmds
              /\ isProcessing' = TRUE
              /\ calls' = Append(calls, newLine.prompt)
              /\ inflight' = inflight \cup
                   {[id |-> Len(calls) + 1, prompt |-> newLine.prompt,
                     resume |-> sessionId, done |-> FALSE]}
              /\ UNCHANGED lastProcessedLine
  /\ UNCHANGED sessionId
  /\ UNCHANGED <<serverVars, buildVars, fileVars, sendVars, deleteVars, info, clientVars, requests, watchVars>>

\* query() yields a message: the session id of an init message is kept, and the
\* message is appended to the response log.  The result message is the last one
\* a query yields.
QueryYields(c, type, sid) ==
  /\ c \in inflight
  /\ ~c.done
  /\ Len(respLog) < MaxResp
  /\ sessionId' = Capture(sessionId, type, sid)
  /\ respLog' = Append(respLog, [kind |-> "json", call |-> c.id, type |-> type,
                                  sid |-> IF type = "system_init" THEN sid ELSE None])
  /\ inflight' = (inflight \ {c}) \cup {[c EXCEPT !.done = (type = "result")]}
  /\ UNCHANGED <<cmdFile, html, lastProcessedLine, isProcessing, calls>>
  /\ UNCHANGED <<serverVars, buildVars, sendVars, deleteVars, info, clientVars, requests, watchVars>>

\* query() is exhausted (after its result message), or throws: processPrompt
\* returns either way, nothing more is written to the log, and the tick that
\* awaited it goes on.
QueryReturns(c, success) ==
  /\ c \in inflight
  /\ success => c.done
  /\ inflight' = inflight \ {c}
  /\ lastProcessedLine' = NextLine(lastProcessedLine)
  /\ isProcessing' = FALSE
  /\ UNCHANGED <<sessionId, calls>>
  /\ UNCHANGED <<serverVars, buildVars, fileVars, sendVars, deleteVars, info, clientVars, requests, watchVars>>

QueryStep ==
  \/ \E c \in inflight, type \in MsgTypes, sid \in SessionIds \cup {None} :
       QueryYields(c, type, sid)
  \/ \E c \in inflight, success \in BOOLEAN : QueryReturns(c, success)

NextWorker ==
  \/ \E line \in CmdLines : AppendLine(line)
  \/ WorkerTick
  \/ QueryStep

SpecWorker == InitServing /\ [][NextWorker]_vars

\* The interval timer keeps firing, and every query() ends or throws.
SpecWorkerFair == SpecWorker /\ WF_vars(WorkerTick) /\ WF_vars(QueryStep)


\* -------------------------------------- POST /api/send-message/:sandboxId
Messages == {"", "p1"}

\* Requests on sandbox s that have not reached their terminal result: those whose
\* append is pending, and the commands of the file the worker has not finished.
Executing(s) ==
  Cardinality({r \in sends : r.sb = s})
    + Len(NonBlank(cmdFile[s]))
    - (IF workerStarted /\ s = sandbox THEN lastProcessedLine ELSE 0)

\* const sandbox = activeSandboxes.get(sandboxId); if (!sandbox) return 404
SendAccepts_idleOnly(s) == s \in activeSandboxes /\ Executing(s) = 0
SendAccepts_connectedOnly(s) == s \in activeSandboxes /\ connected
SendAccepts(s) == s \in activeSandboxes

\* An answer: registered and busy say how things were when the request arrived.
SendAnswer(s, m, busy, registered, outcome, status) ==
  [sb |-> s, msg |-> m, busy |-> busy, registered |-> registered,
   outcome |-> outcome, status |-> status]

\* The command file after the echo ... >> of the request: the line is there when
\* the command ran with exit code 0.
Appended_always(file, outcome, line) == Append(file, line)
Appended(file, outcome, line) == IF outcome = "ok" THEN Append(file, line) ELSE file

\* The request arrives: it is answered at once (400, 404), or the echo that
\* appends the command is sent to the sandbox and awaited.
SendMessage(s, m) ==
  /\ Len(sendLog) + Cardinality(sends) < MaxSends
  /\ IF m = ""
     THEN /\ sendLog' = Append(sendLog, SendAnswer(s, m, Executing(s) > 0,
                                                   s \in activeSandboxes, "none", 400))
          /\ UNCHANGED sends
     ELSE IF ~SendAccepts(s)
     THEN /\ sendLog' = Append(sendLog, SendAnswer(s, m, Executing(s) > 0,
                                                   s \in activeSandboxes, "none", 404))
          /\ UNCHANGED sends
     ELSE /\ sends' = sends \cup
               {[id |-> Len(sendLog) + Cardinality(sends) + 1, sb |-> s, msg |-> m,
                 busy |-> Executing(s) > 0, registered |-> s \in activeSandboxes]}
          /\ UNCHANGED sendLog
  /\ UNCHANGED <<serverVars, buildVars, fileVars, deleteVars, info, clientVars, requests, watchVars,
                 workerVars>>

\* sandbox.commands.run returns with exit code 0 (the line was appended: 200),
\* with another exit code, or throws (500).
SendReturns(r, outcome) ==
  /\ r \in sends
  /\ sends' = sends \ {r}
  /\ cmdFile' = [cmdFile EXCEPT ![r.sb] = Appended(@, outcome, CmdLine("ok", r.msg))]
  /\ sendLog' = Append(sendLog, SendAnswer(r.sb, r.msg, r.busy, r.registered, outcome,
                                           IF outcome = "ok" THEN 200 ELSE 500))
  /\ UNCHANGED <<respLog, html>>
  /\ UNCHANGED <<serverVars, buildVars, deleteVars, info, clientVars, requests, watchVars, workerVars>>

NextSession ==
  \/ \E s \in SandboxIds, m \in Messages : SendMessage(s, m)
  \/ \E r \in sends, outcome \in {"ok", "exit1", "throws"} : SendReturns(r, outcome)
  \/ WorkerTick
  \/ QueryStep

SpecSession == InitServing /\ [][NextSession]_vars


\* --------------------------------------- DELETE /api/sandbox/:sandboxId
\* const sandbox = activeSandboxes.get(sandboxId); if (sandbox) ...
Registered_any(s) == TRUE
Registered(s) == s \in activeSandboxes

\* activeSandboxes.delete(sandboxId)
Unregister_missing(registry, s) == registry
Unregister(registry, s) == registry \ {s}

\* An answer: registered says whether the id was registered when the request
\* arrived.
DeleteAnswer(s, registered, outcome, status) ==
  [sb |-> s, registered |-> registered, outcome |-> outcome, status |-> status]

\* The request arrives: 404 for an id that is not registered, otherwise
\* sandbox.close() is called and awaited.
DeleteRequest(s) ==
  /\ Len(deleteLog) + Cardinality(deletes) < MaxDeletes
  /\ IF Registered(s)
     THEN /\ deletes' = deletes \cup
               {[id |-> Len(deleteLog) + Cardinality(deletes) + 1, sb |-> s,
                 registered |-> s \in activeSandboxes]}
          /\ UNCHANGED deleteLog
     ELSE /\ deleteLog' = Append(deleteLog,
                                 DeleteAnswer(s, s \in activeSandboxes, "none", 404))
          /\ UNCHANGED deletes
  /\ UNCHANGED <<serverVars, buildVars, fileVars, sendVars, info, clientVars, requests, watchVars,
                 workerVars>>

\* sandbox.close() returns (the id is unregistered: 200) or throws (500).
DeleteReturns(r, ok) ==
  /\ r \in deletes
  /\ deletes' = deletes \ {r}
  /\ IF ok
     THEN /\ activeSandboxes' = Unregister(activeSandboxes, r.sb)
          /\ deleteLog' = Append(deleteLog, DeleteAnswer(r.sb, r.registered, "ok", 200))
     ELSE /\ UNCHANGED activeSandboxes
          /\ deleteLog' = Append(deleteLog, DeleteAnswer(r.sb, r.registered, "throws", 500))
  /\ UNCHANGED <<activeBuilds, claudeSessions, envKeys, now>>
  /\ UNCHANGED <<buildVars, fileVars, sendVars, info, clientVars, requests, watchVars, workerVars>>


\* ------------------------------------------- GET /api/watch/:sandboxId
\* A line of the response log: kind is "json" (JSON.parse succeeds), "bad" (it
\* throws) or "blank" (empty or white space).  The worker writes json lines.
LogKinds == {"json", "bad", "blank"}
HtmlContents == {"", "h1"}
RunOutcomes == {"ok", "error", "abort"}

Response(i) == [type |-> "claude_response", line |-> i]

\* Something appends a line to the response log.
AppendResponse(kind) ==
  /\ Len(respLog) < MaxLog
  /\ respLog' = Append(respLog, [kind |-> kind, call |-> 0, type |-> "ext",
                                  sid |-> None])
  /\ UNCHANGED <<cmdFile, html>>
  /\ UNCHANGED <<serverVars, buildVars, sendVars, deleteVars, info, clientVars, requests, watchVars, workerVars>>

\* Something writes index.html.
WriteHtml(content) ==
  /\ content # html
  /\ html' = content
  /\ UNCHANGED <<cmdFile, respLog>>
  /\ UNCHANGED <<serverVars, buildVars, sendVars, deleteVars, info, clientVars, requests, watchVars, workerVars>>

\* The request arrives: 404 for an unknown sandbox, otherwise the stream is
\* opened and the interval timer set.
WatchRequest(s) ==
  /\ wpc = "idle"
  /\ watchId' = s
  /\ IF ~Registered(s)
     THEN /\ wpc' = "notfound"
          /\ UNCHANGED <<wstream, lastResponseSize, lastHtmlContent, watchActive,
                         watchTimer>>
     ELSE /\ wpc' = "open"
          /\ wstream' = <<[type |-> "connected", line |-> 0]>>
          /\ lastResponseSize' = 0
          /\ lastHtmlContent' = ""
          /\ watchActive' = TRUE
          /\ watchTimer' = TRUE
  /\ UNCHANGED <<ticks, tickCount, htmlReads>>
  /\ UNCHANGED <<serverVars, buildVars, fileVars, sendVars, deleteVars, info, clientVars, requests, workerVars>>

\* catch (error) of the tick: an abort ends the watch, anything else is logged.
TickCatch(t, outcome) ==
  /\ ticks' = ticks \ {t}
  /\ watchActive' = IF outcome = "abort" THEN FALSE ELSE watchActive
  /\ UNCHANGED <<wstream, lastResponseSize, lastHtmlContent>>

\* watchInterval fires: the callback runs up to its first await (wc -l).
TickStart ==
  /\ watchTimer
  /\ IF ~watchActive
     THEN /\ watchTimer' = FALSE
          /\ UNCHANGED <<ticks, tickCount>>
     ELSE /\ tickCount < MaxTicks
          /\ tickCount' = tickCount + 1
          /\ ticks' = ticks \cup
               {[id |-> tickCount + 1, pc |-> "wc", cur |-> 0, base |-> 0, n |-> 0]}
          /\ UNCHANGED watchTimer
  /\ UNCHANGED <<wpc, watchId, wstream, lastResponseSize, lastHtmlContent, watchActive,
                 htmlReads>>
  /\ UNCHANGED <<serverVars, buildVars, fileVars, sendVars, deleteVars, info, clientVars, requests, workerVars>>

\* wc -l returns the number of lines of the log: with more lines than the cursor
\* a tail of the difference is awaited, otherwise the cat of index.html.
TickWc(t, outcome) ==
  /\ t \in ticks
  /\ t.pc = "wc"
  /\ IF outcome # "ok"
     THEN TickCatch(t, outcome)
     ELSE LET currentResponseSize == Len(respLog) IN
          /\ ticks' = (ticks \ {t}) \cup
               {IF currentResponseSize > lastResponseSize
                THEN [t EXCEPT !.pc = "tail", !.cur = currentResponseSize,
                               !.base = lastResponseSize,
                               !.n = currentResponseSize - lastResponseSize]
                ELSE [t EXCEPT !.pc = "html"]}
          /\ UNCHANGED <<wstream, lastResponseSize, lastHtmlContent, watchActive>>
  /\ UNCHANGED <<wpc, watchId, watchTimer, tickCount, htmlReads>>
  /\ UNCHANGED <<serverVars, buildVars, fileVars, sendVars, deleteVars, info, clientVars, requests, workerVars>>

\* tail -n k of the log as it is now: the numbers of its last k lines.
TailLines(k) ==
  LET m == IF k < Len(respLog) THEN k ELSE Len(respLog)
  IN [i \in 1..m |-> Len(respLog) - m + i]

\* stdout.trim().split('\n'): blank lines at both ends are dropped, and what is
\* left of nothing but blank lines is one empty string (line number 0).
RECURSIVE DropBlankHead(_)
DropBlankHead(ls) ==
  IF ls # <<>> /\ respLog[Head(ls)].kind = "blank" THEN DropBlankHead(Tail(ls)) ELSE ls

RECURSIVE DropBlankTail(_)
DropBlankTail(ls) ==
  IF ls # <<>> /\ respLog[Last(ls)].kind = "blank"
  THEN DropBlankTail(SubSeq(ls, 1, Len(ls) - 1)) ELSE ls

TrimSplit(ls) ==
  LET inner == DropBlankTail(DropBlankHead(ls))
  IN IF inner = <<>> THEN <<0>> ELSE inner

\* JSON.parse(line) does not throw.
Parses(l) == l # 0 /\ respLog[l].kind = "json"

\* for (const line of lines) { try { parse, write } catch { log } }
RECURSIVE ParseLoop_abort(_)
ParseLoop_abort(ls) ==
  IF ls = <<>> \/ ~Parses(Head(ls)) THEN <<>>
  ELSE <<Response(Head(ls))>> \o ParseLoop_abort(Tail(ls))

RECURSIVE ParseLoop(_)
ParseLoop(ls) ==
  IF ls = <<>> THEN <<>>
  ELSE (IF Parses(Head(ls)) THEN <<Response(Head(ls))>> ELSE <<>>)
         \o ParseLoop(Tail(ls))

\* tail returns: every line that parses is written, the cursor is set to the
\* count read before, and the cat of index.html is awaited.
TickTail(t, outcome) ==
  /\ t \in ticks
  /\ t.pc = "tail"
  /\ IF outcome # "ok"
     THEN TickCatch(t, outcome)
     ELSE /\ wstream' = wstream \o ParseLoop(TrimSplit(TailLines(t.n)))
          /\ lastResponseSize' = t.cur
          /\ ticks' = (ticks \ {t}) \cup {[t EXCEPT !.pc = "html"]}
          /\ UNCHANGED <<lastHtmlContent, watchActive>>
  /\ UNCHANGED <<wpc, watchId, watchTimer, tickCount, htmlReads>>
  /\ UNCHANGED <<serverVars, buildVars, fileVars, sendVars, deleteVars, info, clientVars, requests, workerVars>>

\* cat index.html returns: a non-empty content that differs from the last one
\* seen is announced and remembered.
\* index.html does not exist.
NoFile == "none"

\* stdout of `cat /home/user/app-project/index.html 2>/dev/null || echo ""`: the
\* content of the file, or the newline of echo when there is no file.
Cat(content) == IF content = NoFile THEN "\n" ELSE content

\* if (currentHtml && currentHtml !== lastHtmlContent)
HtmlChanged_any(currentHtml, last) == currentHtml # last
HtmlChanged(currentHtml, last) == currentHtml # "" /\ currentHtml # last

\* cat index.html returns: a non-empty content that differs from the last one
\* announced is announced and remembered.
TickHtml(t, outcome) ==
  /\ t \in ticks
  /\ t.pc = "html"
  /\ IF outcome # "ok"
     THEN TickCatch(t, outcome) /\ UNCHANGED htmlReads
     ELSE LET currentHtml == Cat(html) IN
          /\ ticks' = ticks \ {t}
          /\ htmlReads' = Append(htmlReads, currentHtml)
          /\ IF HtmlChanged(currentHtml, lastHtmlContent)
             THEN /\ wstream' = Append(wstream, [type |-> "file_change", line |-> 0])
                  /\ lastHtmlContent' = currentHtml
             ELSE UNCHANGED <<wstream, lastHtmlContent>>
          /\ UNCHANGED <<lastResponseSize, watchActive>>
  /\ UNCHANGED <<wpc, watchId, watchTimer, tickCount>>
  /\ UNCHANGED <<serverVars, buildVars, fileVars, sendVars, deleteVars, info, clientVars, requests, workerVars>>

\* req.on('close') of the watch request.
WatchDisconnect ==
  /\ wpc = "open"
  /\ wpc' = "closed"
  /\ watchActive' = FALSE
  /\ watchTimer' = FALSE
  /\ UNCHANGED <<watchId, wstream, lastResponseSize, lastHtmlContent, ticks, tickCount,
                 htmlReads>>
  /\ UNCHANGED <<serverVars, buildVars, fileVars, sendVars, deleteVars, info, clientVars, requests, workerVars>>

NextWatch ==
  \/ \E s \in SandboxIds : WatchRequest(s)
  \/ TickStart
  \/ \E t \in ticks, outcome \in RunOutcomes : TickWc(t, outcome)
  \/ \E t \in ticks, outcome \in RunOutcomes : TickTail(t, outcome)
  \/ \E t \in ticks, outcome \in RunOutcomes : TickHtml(t, outcome)
  \/ \E kind \in LogKinds : AppendResponse(kind)
  \/ WatchDisconnect

\* The generation may or may not have left an index.html.
InitWatch == Serving /\ html \in HtmlContents

SpecWatch == InitWatch /\ [][NextWatch]_vars

\* ------------------------------------------- the watch of index.html
\* What index.html is rewritten to; NoFile when it is removed.
HtmlWrites == {NoFile, "", "h1", "h2"}

\* A watch of a sandbox whose response log stays empty while index.html is
\* rewritten.
NextWatchHtml ==
  \/ \E s \in SandboxIds : WatchRequest(s)
  \/ TickStart
  \/ \E t \in ticks, outcome \in RunOutcomes : TickWc(t, outcome)
  \/ \E t \in ticks, outcome \in RunOutcomes : TickHtml(t, outcome)
  \/ \E content \in HtmlWrites : WriteHtml(content)
  \/ WatchDisconnect

SpecWatchHtml == InitWatch /\ [][NextWatchHtml]_vars


\* ------------------------------------------------- the registry of sandboxes
\* The three handlers that look a sandbox id up, on a server with one sandbox.
NextRegistry ==
  \/ \E s \in SandboxIds : DeleteRequest(s)
  \/ \E r \in deletes, ok \in BOOLEAN : DeleteReturns(r, ok)
  \/ \E s \in SandboxIds, m \in Messages : SendMessage(s, m)
  \/ \E r \in sends, outcome \in {"ok", "exit1", "throws"} : SendReturns(r, outcome)
  \/ \E s \in SandboxIds : WatchRequest(s)
  \/ WatchDisconnect

SpecRegistry == InitServing /\ [][NextRegistry]_vars

\* ------------------------------------- follow-up requests during a build
\* A build request, its client going away, and follow-up requests, on a server
\* that starts empty.  No step of these reads the clock.
NextDisconnect ==
  \/ \E prompt \in Prompts : BuildRequest(prompt)
  \/ BuildStep
  \/ BuildDisconnect
  \/ \E s \in SandboxIds, m \in Messages : SendMessage(s, m)
  \/ \E r \in sends, outcome \in {"ok", "exit1", "throws"} : SendReturns(r, outcome)

SpecDisconnect == Init /\ [][NextDisconnect]_vars

\* --------------------------------------- GET /health and GET /api/builds
\* activeBuilds.size, activeSandboxes.size, claudeSessions.size
Size_zero(m) == 0
Size(m) == Cardinality(m)

Health ==
  /\ info' = InfoAnswer("health", Size(activeBuilds), Size(activeSandboxes),
                        Size(claudeSessions), {})
  /\ UNCHANGED <<serverVars, buildVars, fileVars, sendVars, deleteVars, clientVars, requests,
                 watchVars, workerVars>>

\* Array.from(activeBuilds.entries()).map(...)
Builds ==
  /\ info' = InfoAnswer("builds", 0, 0, 0, activeBuilds)
  /\ UNCHANGED <<serverVars, buildVars, fileVars, sendVars, deleteVars, clientVars, requests,
                 watchVars, workerVars>>

\* A build, its client going away, and the two read-only requests.
NextInfo ==
  \/ \E prompt \in Prompts : BuildRequest(prompt)
  \/ BuildStep
  \/ BuildDisconnect
  \/ Health
  \/ Builds

SpecInfo == Init /\ [][NextInfo]_vars

\* ------------------------------------------- every path that has a sandbox
\* A build (whose generation prints nothing), its client going away, and
\* cleanup, follow-up and watch requests for registered ids, on a server that
\* starts empty.
NextCleanup ==
  \/ \E prompt \in Prompts : BuildRequest(prompt)
  \/ \E id \in SandboxIds : CreateReturns(id)
  \/ StepThrows
  \/ StepReturns
  \/ \E exitCode \in {0, 1} : GenerateReturns(<<>>, exitCode)
  \/ PollStart
  \/ \E result \in {"200", "000", "throws"} : PollCheck(result)
  \/ PollSleep
  \/ WorkerStarted
  \/ \E ok \in BOOLEAN : CloseReturns(ok)
  \/ BuildDisconnect
  \/ \E s \in activeSandboxes : DeleteRequest(s)
  \/ \E r \in deletes, ok \in BOOLEAN : DeleteReturns(r, ok)
  \/ \E s \in activeSandboxes : SendMessage(s, "p1")
  \/ \E r \in sends, outcome \in {"ok", "throws"} : SendReturns(r, outcome)
  \/ \E s \in activeSandboxes : WatchRequest(s)

SpecCleanup == Init /\ [][NextCleanup]_vars



\* ------------------------------ POST /api/build-app, several requests at once
\* Here the clock counts the milliseconds of Date.now().
MaxRequests == 3

InFlight == {k \in DOMAIN requests : requests[k].inflight}

\* const buildId = Date.now().toString(); activeBuilds.set(buildId, {...}): the
\* handler runs to this point without an await.
BuildArrives ==
  /\ Len(requests) < MaxRequests
  /\ activeBuilds' = activeBuilds \cup {BuildIdAt(now)}
  /\ requests' = Append(requests, [buildId |-> BuildIdAt(now), inflight |-> TRUE])
  /\ UNCHANGED <<activeSandboxes, claudeSessions, envKeys, now>>
  /\ UNCHANGED <<buildVars, fileVars, sendVars, deleteVars, info, clientVars, watchVars,
                 workerVars>>

\* activeBuilds.delete(buildId): the build of request k returned or threw, or its
\* client went away.
BuildLeaves(k) ==
  /\ k \in InFlight
  /\ activeBuilds' = BuildsDelete(activeBuilds, requests[k].buildId)
  /\ requests' = [requests EXCEPT ![k].inflight = FALSE]
  /\ UNCHANGED <<activeSandboxes, claudeSessions, envKeys, now>>
  /\ UNCHANGED <<buildVars, fileVars, sendVars, deleteVars, info, clientVars, watchVars,
                 workerVars>>

\* A millisecond passes.
Millisecond ==
  /\ now < MaxTime
  /\ now' = now + 1
  /\ UNCHANGED <<activeBuilds, activeSandboxes, claudeSessions, envKeys, requests>>
  /\ UNCHANGED <<buildVars, fileVars, sendVars, deleteVars, info, clientVars, watchVars,
                 workerVars>>

NextBuilds ==
  \/ BuildArrives
  \/ \E k \in 1..MaxRequests : BuildLeaves(k)
  \/ Millisecond

SpecBuilds == Init /\ [][NextBuilds]_vars

\* ---------------------------------------- VibesApp.tsx, LovableBuilder.tsx
\* What Gemini asks to build (buildApp) and to change (sendMessage).
Descriptions == {"todo app"}
Changes == {"make it blue"}

\* The user's transcribed speech, and userTranscript.includes(...) of one of
\* 'yes', 'confirm', 'start', 'go ahead', 'sure', 'okay', 'ok'.
Transcripts == {"", "yes", "no"}
Confirms(t) == t = "yes"

\* if (timeSinceConfirmation < 500) return
ConfirmWindow == 500
TooSoon_never(elapsed) == FALSE
TooSoon(elapsed) == elapsed < ConfirmWindow
Elapsed == {ConfirmWindow - 1, ConfirmWindow}

\* The content events of the transcription: the one that confirms, and those that
\* differ from it in one respect.
Contents ==
  LET confirming == [t |-> "yes", finished |-> TRUE, elapsed |-> ConfirmWindow]
      Differs(c) == Cardinality({f \in DOMAIN c : c[f] # confirming[f]})
  IN {c \in [t : Transcripts, finished : BOOLEAN, elapsed : Elapsed] : Differs(c) <= 1}

\* The serverSide of the page: nothing of server.js or of the sandbox is touched
\* by a step of the page.
serverSide == <<serverVars, buildVars, fileVars, sendVars, deleteVars, info, requests,
                watchVars, workerVars>>

\* One line of a response stream, as the read loop sees it.  sid is the
\* session_id and url the preview URL (port 5173 or 3000) of exposed_urls; ""
\* when the line has none.
Line(kind, sid, url) == [kind |-> kind, sid |-> sid, url |-> url]
PlainKinds == {"status_important", "text_delta", "result", "done", "error", "[DONE]",
               "unknown", "badjson"}
Lines ==
  {Line(k, "", "") : k \in PlainKinds}
    \cup {Line("complete", "", ""), Line("complete", "S1", "u1"),
          Line("ports", "", "u1")}

\* A startBuild call: where it posted, and the locals of its read loop.
Fetch(endpoint, prompt) ==
  [endpoint |-> endpoint, prompt |-> prompt, open |-> TRUE, completeSandboxId |-> "",
   acc |-> FALSE, aborted |-> FALSE]

\* sessionId ? `${backendUrl}/chat/${sessionId}` : `${backendUrl}/chat`: the
\* session the request is posted to, "" for /chat.
Endpoint_fresh(sid) == ""
Endpoint(sid) == sid

\* if (!sessionId) { setMessages([]); setPreviewUrl('') }
Kept(sid, old, fresh) == IF sid = "" THEN fresh ELSE old

\* catch (e) { console.error(...) } around JSON.parse and the handling of a line
CatchParse_rethrow(kind) == "throw"
CatchParse(kind) == "continue"

\* if (currentAccumulatedText) { setMessages(prev => [...prev, textMessage]) ... }
Flush(acc) == IF acc THEN <<"claude_message">> ELSE <<>>

\* The types of the messages one line adds to the list.
LineMessages(line, acc) ==
  CASE line.kind \in {"status_important", "ports"} -> <<"progress">>
    [] line.kind = "result"   -> Flush(acc) \o <<"complete">>
    [] line.kind = "complete" -> <<"complete">>
    [] line.kind = "error"    -> <<"error">>
    [] OTHER                  -> <<>>

\* The build effect has to run: one of its dependencies (buildStatus,
\* buildRequest, and startBuild, which is renewed with sessionId) changed.
Dirty == <<buildStatus, buildRequest, builderSessionId>> # rendered

\* handleToolCall, fc.name === 'buildApp'
ToolBuildApp(description) ==
  /\ ~Dirty
  /\ toolCalls < MaxCalls
  /\ toolCalls' = toolCalls + 1
  /\ buildStatus' = "pending_confirmation"
  /\ buildRequest' = [description |-> description, callId |-> toolCalls + 1]
  /\ confirmationStartTime' = TRUE
  /\ UNCHANGED <<currentSessionId, builderSessionId, messages, previewUrl,
                 accumulatedText, rendered, fetches, linesRead, lastLine, abortControllerRef>>
  /\ voiceLog' = Logged("other")
  /\ UNCHANGED serverSide

\* handleToolCall, fc.name === 'confirmBuild'
ToolConfirmBuild ==
  /\ ~Dirty
  /\ toolCalls < MaxCalls
  /\ toolCalls' = toolCalls + 1
  /\ buildStatus' = "building"
  /\ UNCHANGED <<buildRequest, confirmationStartTime, currentSessionId,
                 builderSessionId, messages, previewUrl, accumulatedText, rendered,
                 fetches, linesRead, lastLine, abortControllerRef>>
  /\ voiceLog' = Logged("other")
  /\ UNCHANGED serverSide

\* if (!currentSessionId) { console.error(...); client.sendToolResponse(error); return }
SendAllowed_always(sid) == TRUE
SendAllowed(sid) == sid # ""

\* handleToolCall, fc.name === 'sendMessage'
ToolSendMessage(message) ==
  /\ ~Dirty
  /\ toolCalls < MaxCalls
  /\ toolCalls' = toolCalls + 1
  /\ IF SendAllowed(currentSessionId)
     THEN /\ buildStatus' = "building"
          /\ buildRequest' = [description |-> message, callId |-> toolCalls + 1]
          /\ voiceLog' = Logged("sendMessage")
     ELSE /\ UNCHANGED <<buildStatus, buildRequest>>
          /\ voiceLog' = Logged("No active session found")
  /\ UNCHANGED <<confirmationStartTime, currentSessionId, builderSessionId, messages,
                 previewUrl, accumulatedText, rendered, fetches, linesRead, lastLine,
                 abortControllerRef>>
  /\ UNCHANGED serverSide

\* handleContent: a transcription of the user's speech arrives, elapsed ms after
\* the confirmation screen was shown.
VoiceTranscript(t, finished, elapsed) ==
  /\ ~Dirty
  /\ IF /\ finished /\ t # ""
        /\ buildRequest # NoRequest
        /\ buildStatus = "pending_confirmation"
        /\ confirmationStartTime
        /\ ~TooSoon(elapsed)
        /\ Confirms(t)
     THEN /\ buildStatus' = "building"
          /\ voiceLog' = [line |-> "voice", said |-> t, elapsed |-> elapsed]
     ELSE UNCHANGED <<buildStatus, voiceLog>>
  /\ UNCHANGED <<buildRequest, confirmationStartTime, currentSessionId,
                 builderSessionId, messages, previewUrl, accumulatedText, rendered,
                 fetches, toolCalls, linesRead, lastLine, abortControllerRef>>
  /\ UNCHANGED serverSide

\* handleManualConfirm: the button exists on the confirmation screen only.
ManualConfirm ==
  /\ ~Dirty
  /\ buildStatus = "pending_confirmation"
  /\ buildStatus' = "building"
  /\ UNCHANGED <<buildRequest, confirmationStartTime, currentSessionId,
                 builderSessionId, messages, previewUrl, accumulatedText, rendered,
                 fetches, toolCalls, linesRead, lastLine, abortControllerRef>>
  /\ voiceLog' = Logged("other")
  /\ UNCHANGED serverSide

\* useEffect(..., [buildStatus, buildRequest, startBuild]): in state 'building'
\* with a request, startBuild runs up to its fetch.
BuildEffect ==
  /\ Dirty
  /\ rendered' = <<buildStatus, buildRequest, builderSessionId>>
  /\ IF buildStatus = "building" /\ buildRequest # NoRequest
     THEN /\ Len(fetches) < MaxPosts
          /\ messages' = Kept(builderSessionId, messages, <<>>)
          /\ previewUrl' = Kept(builderSessionId, previewUrl, "")
          /\ fetches' = Append(fetches, Fetch(Endpoint(builderSessionId),
                                              buildRequest.description))
          /\ abortControllerRef' = Len(fetches) + 1
          /\ voiceLog' = Logged("other")
     ELSE UNCHANGED <<messages, previewUrl, fetches, abortControllerRef, voiceLog>>
  /\ UNCHANGED <<buildStatus, buildRequest, confirmationStartTime, currentSessionId,
                 builderSessionId, accumulatedText, toolCalls, linesRead,
                 lastLine>>
  /\ UNCHANGED serverSide

\* The outer catch of startBuild (not an AbortError): an error message is shown
\* and onBuildError() resets the page.
BuildFailed(i) ==
  /\ messages' = Append(messages, "error")
  /\ buildStatus' = "idle"
  /\ buildRequest' = NoRequest
  /\ confirmationStartTime' = FALSE
  /\ fetches' = [fetches EXCEPT ![i].open = FALSE]
  /\ UNCHANGED <<currentSessionId, builderSessionId, previewUrl, accumulatedText>>

\* The read loop takes the next line of the stream of fetch i.
ReadLine(i, line) ==
  /\ i \in DOMAIN fetches
  /\ fetches[i].open
  /\ linesRead < MaxLines
  /\ linesRead' = linesRead + 1
  /\ lastLine' = line
  /\ IF line.kind = "badjson" /\ CatchParse(line.kind) = "throw"
     THEN BuildFailed(i)
     ELSE LET f == fetches[i]
              flushes == line.kind = "result"
              stores == line.kind = "complete" /\ line.sid # ""
          IN /\ messages' = messages \o LineMessages(line, f.acc)
             /\ accumulatedText' = IF line.kind = "text_delta" THEN TRUE
                                   ELSE IF flushes /\ f.acc THEN FALSE
                                   ELSE accumulatedText
             /\ builderSessionId' = IF stores THEN line.sid ELSE builderSessionId
             /\ previewUrl' = IF line.kind \in {"complete", "ports"} /\ line.url # ""
                              THEN line.url ELSE previewUrl
             /\ fetches' = [fetches EXCEPT ![i] =
                  [@ EXCEPT !.acc = IF line.kind = "text_delta" THEN TRUE
                                    ELSE IF flushes THEN FALSE ELSE @,
                            !.completeSandboxId = IF stores THEN line.sid ELSE @]]
             /\ IF line.kind = "done"
                THEN \* onBuildComplete(completeSandboxId)
                     /\ buildStatus' = "complete"
                     /\ confirmationStartTime' = FALSE
                     /\ currentSessionId' = IF f.completeSandboxId # ""
                                            THEN f.completeSandboxId
                                            ELSE currentSessionId
                ELSE UNCHANGED <<buildStatus, confirmationStartTime, currentSessionId>>
             /\ UNCHANGED buildRequest
  /\ UNCHANGED <<rendered, toolCalls, abortControllerRef, voiceLog>>
  /\ UNCHANGED serverSide

\* fetch or reader.read() throws, or the response is not ok.
FetchFails(i) ==
  /\ i \in DOMAIN fetches
  /\ fetches[i].open
  /\ BuildFailed(i)
  /\ UNCHANGED <<rendered, toolCalls, linesRead, lastLine, abortControllerRef, voiceLog>>
  /\ UNCHANGED serverSide

\* reader.read() returns done: the loop is left.
StreamEnds(i) ==
  /\ i \in DOMAIN fetches
  /\ fetches[i].open
  /\ fetches' = [fetches EXCEPT ![i].open = FALSE]
  /\ UNCHANGED <<buildStatus, buildRequest, confirmationStartTime, currentSessionId,
                 builderSessionId, messages, previewUrl, accumulatedText, rendered,
                 toolCalls, linesRead, lastLine, abortControllerRef, voiceLog>>
  /\ UNCHANGED serverSide

\* if (error.name === 'AbortError') { console.log('Build aborted') }: what the
\* outer catch of startBuild makes of the build status after an abort.
AfterAbort(status) == status

\* cancelBuild: the Cancel button exists while the status is 'building'.  The
\* request whose controller the ref holds is aborted; its read loop, when still
\* running, ends in the outer catch with an AbortError.
CancelBuild ==
  /\ ~Dirty
  /\ buildStatus = "building"
  /\ abortControllerRef # 0
  /\ abortControllerRef' = 0
  /\ IF fetches[abortControllerRef].open
     THEN /\ fetches' = [fetches EXCEPT ![abortControllerRef].open = FALSE,
                                        ![abortControllerRef].aborted = TRUE]
          /\ buildStatus' = AfterAbort(buildStatus)
     ELSE UNCHANGED <<fetches, buildStatus>>
  /\ UNCHANGED <<buildRequest, confirmationStartTime, currentSessionId,
                 builderSessionId, messages, previewUrl, accumulatedText, rendered,
                 toolCalls, linesRead, lastLine, voiceLog>>
  /\ UNCHANGED serverSide

\* A response stream delivers its next line, ends or breaks.
StreamStep ==
  \E i \in 1..MaxPosts :
    \/ \E line \in Lines : ReadLine(i, line)
    \/ FetchFails(i)
    \/ StreamEnds(i)

NextClient ==
  \/ \E description \in Descriptions : ToolBuildApp(description)
  \/ ToolConfirmBuild
  \/ \E message \in Changes : ToolSendMessage(message)
  \/ \E c \in Contents : VoiceTranscript(c.t, c.finished, c.elapsed)
  \/ ManualConfirm
  \/ BuildEffect
  \/ StreamStep

\* The page alone: the server it talks to is none of server.js's state.
InitClient == Init /\ envKeys

SpecClient == InitClient /\ [][NextClient]_vars

\* The page with its Cancel button.  React runs the effect after every render
\* that changed its dependencies, and every response stream goes on, ends or
\* breaks.
NextPage ==
  \/ NextClient
  \/ CancelBuild

SpecPage ==
  InitClient /\ [][NextPage]_vars /\ WF_vars(BuildEffect) /\ WF_vars(StreamStep)

\* ------------------------------------------------ claims on the build stream
Types(s) == {s[i].type : i \in DOMAIN s}

\* C2: in a build stream the terminal marker is written only as the last thing
\* (so at most once, with no progress, heartbeat, complete or error event after
\* it), and a request that is over has written it.
C2_DoneOnceAndLast ==
  /\ \A i \in DOMAIN stream : stream[i] = DoneMarker => i = Len(stream)
  /\ bpc = "done" => (stream # <<>> /\ Last(stream) = DoneMarker)

\* C2 witness: a request is over after progress events, a heartbeat and a client
\* disconnect.
C2_Witness ==
  /\ bpc = "done"
  /\ ~connected
  /\ {"progress", "heartbeat"} \subseteq Types(stream)
  /\ Last(stream) = DoneMarker

\* C3: whatever is written to a build stream after an error event is the
\* terminal marker.
C3_OnlyDoneAfterError ==
  \A i, j \in DOMAIN stream :
    (i < j /\ stream[i].type = "error") => stream[j] = DoneMarker

\* C3 witness: a build that had written progress and a message of the generation
\* failed, and the error event was written.
C3_Witness ==
  /\ bpc = "done"
  /\ {"progress", "claude_message", "error"} \subseteq Types(stream)

\* C4: a build stream that was opened is in the end closed, with the terminal
\* marker as the last thing written.
C4_StreamTerminates ==
  (stream # <<>>) ~> (resEnded /\ Last(stream) = DoneMarker)

\* C4 witness: a build that failed after its sandbox was created is closed.
C4_Witness ==
  /\ resEnded
  /\ sandbox # None
  /\ "error" \in Types(stream)
  /\ Last(stream) = DoneMarker

PromptsOf(lines) ==
  LET with == SelectSeq(lines, LAMBDA l : l.kind \in {"ok", "nonstring"})
  IN [i \in 1..Len(with) |-> with[i].prompt]

\* The lines of the command file the worker has taken up so far.
TakenUp ==
  SubSeq(NonBlank(cmdFile[sandbox]), 1,
         lastProcessedLine + (IF inflight # {} THEN 1 ELSE 0))

C9_OneAtATime ==
  /\ Cardinality(inflight) <= 1
  /\ inflight # {} => isProcessing
  /\ \A i, j \in DOMAIN respLog : i < j => respLog[i].call <= respLog[j].call

\* C9 witness: the second command is in flight and has written to the log after
\* the first one did, while a third waits in the file.
C9_Witness ==
  /\ \E c \in inflight : c.id = 2
  /\ {1, 2} \subseteq {respLog[i].call : i \in DOMAIN respLog}
  /\ Len(NonBlank(cmdFile[sandbox])) > lastProcessedLine + 1

\* C10, as stated: a well-formed record that follows a record that is not a
\* well-formed command is in the end processed.
C10_MalformedNotFatal ==
  \A i \in 1..MaxCmds :
    (/\ Len(NonBlank(cmdFile[sandbox])) >= i
     /\ NonBlank(cmdFile[sandbox])[i].kind = "ok"
     /\ \E j \in 1..(i - 1) : NonBlank(cmdFile[sandbox])[j].kind # "ok")
      ~> (lastProcessedLine >= i)

\* The same for unparseable lines alone, which the worker does skip.
C10_UnparseableNotFatal ==
  \A i \in 1..MaxCmds :
    (/\ Len(NonBlank(cmdFile[sandbox])) >= i
     /\ NonBlank(cmdFile[sandbox])[i].kind = "ok"
     /\ \A j \in 1..i : NonBlank(cmdFile[sandbox])[j].kind \in {"ok", "badjson"})
      ~> (lastProcessedLine >= i)

\* --------------------------------------------- claims on the watch loop
\* The numbers of the log lines written to the watch stream, in order.
Emitted ==
  LET rs == SelectSeq(wstream, LAMBDA e : e.type = "claude_response")
  IN [i \in 1..Len(rs) |-> rs[i].line]

\* C5, as stated: no line of the response log is written to a watch stream twice.
C5_NoLineTwice ==
  \A i, j \in DOMAIN Emitted : i # j => Emitted[i] # Emitted[j]

\* C6, as stated (what a finite run can refute of it): lines are written in the
\* order of the file, and every well-formed line the cursor has passed was
\* written.
C6_InOrderNoSkip ==
  /\ \A i, j \in DOMAIN Emitted : i < j => Emitted[i] < Emitted[j]
  /\ \A l \in 1..lastResponseSize :
       (l <= Len(respLog) /\ respLog[l].kind = "json")
         => \E i \in DOMAIN Emitted : Emitted[i] = l

\* The well-formed lines among ls, in order.
WellFormed(ls) == SelectSeq(ls, LAMBDA l : respLog[l].kind = "json")

\* C7: when the tail of a tick returns a batch, exactly the well-formed lines of
\* the batch are written, in order; the cursor moves on by the length of the
\* whole batch, malformed lines included; and the watch goes on (it stays active,
\* its timer set, the tick goes on to its next step).
C7_MalformedSkipped ==
  [][\A t \in ticks :
       (t.pc = "tail" /\ [t EXCEPT !.pc = "html"] \in ticks')
         => LET batch == TailLines(t.n) IN
            /\ wstream' = wstream \o [i \in 1..Len(WellFormed(batch)) |->
                                        Response(WellFormed(batch)[i])]
            /\ lastResponseSize' = t.base + Len(batch)
            /\ watchActive' = watchActive
            /\ watchTimer' = watchTimer]_vars

\* C7 witness: of a log with a malformed line before a well-formed one, the
\* well-formed line alone was written, the cursor is behind both, and the watch
\* is still active.
C7_Witness ==
  /\ Len(respLog) = 2
  /\ respLog[1].kind = "bad" /\ respLog[2].kind = "json"
  /\ Emitted = <<2>>
  /\ lastResponseSize = 2
  /\ watchActive /\ watchTimer

\* ------------------------------------------- claims on the round trip
\* The calls of processPrompt that are over.
Returned == {k \in 1..Len(calls) : \A c \in inflight : c.id # k}

\* The result entries of the response log that call k wrote.
ResultsOf(k) == {i \in DOMAIN respLog : respLog[i].call = k /\ respLog[i].type = "result"}

\* C11, as stated: every command that was processed, one whose query failed
\* included, has exactly one terminal result in the response log, and the results
\* are in the order of the commands.
C11_OneResultPerCommand ==
  /\ \A k \in Returned : Cardinality(ResultsOf(k)) = 1
  /\ \A i, j \in DOMAIN respLog : i < j => respLog[i].call <= respLog[j].call

\* ------------------------------------------- claims on client disconnects
\* C12: the step in which the client of a build goes away leaves the registry,
\* the sessions, the build and the sandbox's files as they are; and a follow-up
\* request answered after that, with a message and for an id registered when it
\* arrived, was passed to that sandbox (never answered 404), is answered 200 when
\* the sandbox call succeeded, with its command appended, and registers no
\* sandbox.
C12_DisconnectKeepsSession ==
  [][/\ (connected /\ ~connected')
          => UNCHANGED <<activeSandboxes, claudeSessions, sandbox, bpc, fileVars>>
     /\ (~connected /\ bpc # "idle" /\ sendLog' # sendLog)
          => LET a == Last(sendLog') IN
             /\ (a.registered /\ a.msg # "") => a.outcome # "none"
             /\ (a.registered /\ a.outcome = "ok")
                  => /\ a.status = 200
                     /\ cmdFile'[a.sb] = Append(cmdFile[a.sb], CmdLine("ok", a.msg))
             /\ UNCHANGED <<activeSandboxes, sandbox, bpc>>]_vars

\* C12 witness: the client went away while the build was waiting for the HTTP
\* server; the sandbox is registered, and a follow-up request on it was answered
\* 200 with its command in the file.
C12_Witness ==
  /\ ~connected
  /\ bpc = "check"
  /\ sandbox \in activeSandboxes
  /\ \E i \in DOMAIN sendLog : sendLog[i].sb = sandbox /\ sendLog[i].status = 200
  /\ cmdFile[sandbox] # <<>>

\* C13, as stated, for a watch stream: once the client has gone away nothing
\* more is written to the stream and no tick issues another sandbox call (no tick
\* starts, and no tick in flight goes on to its next call).
C13_StoppedAtDisconnect ==
  [][wpc = "closed" => (wstream' = wstream /\ \A t \in ticks' : t \in ticks)]_vars

\* ----------------------------------------------- claims on the heartbeat
\* C14, as stated: while a build stream is open and its timer set, once 14 s
\* have passed since the last event was written a heartbeat is about to be
\* written: the timer fires within the second that its period is longer than the
\* 14 s.
C14_HeartbeatWhenIdle ==
  (hbActive /\ ~resEnded /\ now - lastHeartbeat >= HeartbeatThreshold)
    => hbDue - now <= HeartbeatPeriod - HeartbeatThreshold

\* ------------------------------------------- claims on the build request
\* C17: a build request without a prompt is answered 400 with nothing else done
\* (no stream, no activeBuilds entry, no timer, no sandbox); a request whose
\* stream was opened keeps the status 200, and when it is over without the
\* complete event its stream ends with the error event and the terminal marker.
C17_RejectedBeforeStream ==
  /\ bpc = "rejected"
       => /\ httpStatus = 400
          /\ stream = <<>> /\ ~resEnded
          /\ activeBuilds = {} /\ buildId = NoBuildId
          /\ ~hbActive
          /\ sandbox = None /\ activeSandboxes = {}
  /\ stream # <<>> => httpStatus = 200
  /\ (bpc = "done" /\ "complete" \notin Types(stream))
       => /\ Len(stream) >= 2
          /\ SubSeq(stream, Len(stream) - 1, Len(stream)) = CatchWrites

\* C17 witness: the request without a prompt was rejected.
C17_Witness == bpc = "rejected" /\ httpStatus = 400

\* C18: when a build request is over (it ended in success or in failure, or its
\* client went away) its heartbeat timer is stopped and activeBuilds does not
\* hold its build id.
C18_ResourcesReleased ==
  (bpc = "done" \/ (bpc \notin {"idle", "rejected"} /\ ~connected))
    => (~hbActive /\ buildId \notin activeBuilds)

\* C18 witness: the client went away during a build that failed later, after
\* its sandbox was created.
C18_Witness ==
  /\ bpc = "done"
  /\ ~connected
  /\ sandbox # None
  /\ "error" \in Types(stream)
  /\ activeBuilds = {}

\* C19, as stated: once the error of a failed build was reported, the sandbox the
\* build had created is not registered any more, also when closing it failed.
C19_FailedBuildDiscarded ==
  ("error" \in Types(stream) /\ sandbox # None) => sandbox \notin activeSandboxes

\* ------------------------------------------------ claims on the registry
\* C15, as stated: a DELETE on an id that an earlier DELETE has closed is not
\* answered with an error.
C15_SecondDeleteNoError ==
  \A i, j \in DOMAIN deleteLog :
    (/\ i < j
     /\ deleteLog[i].sb = deleteLog[j].sb
     /\ deleteLog[i].status = 200
     /\ ~deleteLog[j].registered)
      => deleteLog[j].status = 200

\* C15, amended: a DELETE on a registered id whose close succeeded is answered
\* 200 and the id is unregistered; a DELETE on an id that is not registered any
\* more is answered 404 without a sandbox call; and the registry is what it was
\* at the start less the ids answered 200, whatever later DELETEs were made.
C15_DeleteThenNotFound ==
  /\ \A i \in DOMAIN deleteLog :
       LET a == deleteLog[i] IN
       /\ a.status = IF ~a.registered THEN 404
                     ELSE IF a.outcome = "ok" THEN 200 ELSE 500
       /\ ~a.registered => a.outcome = "none"
  /\ activeSandboxes =
       {s \in {"sb1"} : \A i \in DOMAIN deleteLog :
                           ~(deleteLog[i].sb = s /\ deleteLog[i].status = 200)}

\* C15 witness: the sandbox was deleted, and a second DELETE on it was answered.
C15_Witness ==
  /\ Len(deleteLog) = 2
  /\ deleteLog[1].sb = "sb1" /\ deleteLog[1].status = 200
  /\ deleteLog[2].sb = "sb1" /\ ~deleteLog[2].registered
  /\ activeSandboxes = {}

C21_OnlyExplicitCleanup ==
  [][\A s \in activeSandboxes \ activeSandboxes' :
       \E r \in deletes \ deletes' : r.sb = s]_vars

\* C21, amended: an id leaves the registry only in the step that answers a DELETE
\* for that id with 200, or in the step in which the close of buildAppInE2B's catch
\* returns, for the sandbox of that failed build, whose error is then reported; no
\* step of a successful build, of a disconnect, of a follow-up request or of a
\* watch request removes one.
C21_CleanupOrFailedBuild ==
  [][\A s \in activeSandboxes \ activeSandboxes' :
       \/ /\ \E r \in deletes \ deletes' : r.sb = s
          /\ deleteLog' # deleteLog
          /\ Last(deleteLog').status = 200
       \/ /\ bpc = "closing" /\ bpc' = "done"
          /\ s = sandbox
          /\ "error" \in Types(stream')]_vars

\* C21 witness: a build failed and its sandbox was closed with no DELETE made,
\* after the client had gone away and a follow-up request had failed.
C21_Witness ==
  /\ bpc = "done"
  /\ "error" \in Types(stream)
  /\ sandbox # None /\ sandbox \notin activeSandboxes
  /\ deleteLog = <<>> /\ deletes = {}
  /\ ~connected
  /\ \E i \in DOMAIN sendLog : sendLog[i].status = 500

\* ------------------------------------ claims on the session's life cycle
\* The build has created and registered its sandbox and has not yet set up the
\* persistent worker.
Provisioning ==
  bpc \in {"mkdir", "npminit", "install", "writescript", "generate", "startserver",
           "wait3s", "check", "sleep", "upload", "startworker"}

\* C22: while the sandbox of a build is still provisioning, no follow-up request
\* on its id is accepted (none awaits its append) and no command has been appended
\* to its command file.
C22_NoCommandWhileProvisioning ==
  Provisioning =>
    /\ \A r \in sends : r.sb # sandbox
    /\ cmdFile[sandbox] = <<>>

\* C23: a build stream never holds both complete and error, and holds complete at
\* most once; where it holds complete, the sandbox was created, the SDK install
\* and the generation had succeeded (their progress events precede it, the
\* sandbox is still registered as created, the worker was started), and complete
\* is the last event but one, followed by the terminal marker only.
C23_CompleteOnlyAfterSuccess ==
  /\ ~("complete" \in Types(stream) /\ "error" \in Types(stream))
  /\ \A i \in DOMAIN stream : stream[i].type = "complete" =>
       /\ i = Len(stream) - 1
       /\ stream[Len(stream)] = DoneMarker
       /\ sandbox # None
       /\ workerStarted
       /\ \E c \in 1..(i-1), n \in 1..(i-1), g \in 1..(i-1) :
            /\ c < n /\ n < g
            /\ stream[c] = Ev("progress", "created")
            /\ stream[n] = Ev("progress", "script")
            /\ stream[g] = Ev("progress", "starting_server")

\* C23 witness: a build whose HTTP server never answered still completed, with
\* complete and the terminal marker as its last two events.
C23_Witness ==
  /\ bpc = "done"
  /\ Len(stream) >= 2
  /\ stream[Len(stream) - 1].type = "complete"
  /\ Last(stream) = DoneMarker
  /\ Ev("progress", "warning") \in {stream[i] : i \in DOMAIN stream}
  /\ resEnded

\* C24: once the request timeout has elapsed since a build request was accepted,
\* its stream is over: a terminal event (complete, or the error forced by the
\* timeout) and then the terminal marker were written, the response is ended,
\* the heartbeat timer is stopped and the activeBuilds entry is gone.
C24_TimeoutEndsStream ==
  (bpc \notin {"idle", "rejected"} /\ now - buildId[1] >= RequestTimeout) =>
    /\ Types(stream) \cap {"complete", "error"} # {}
    /\ Last(stream) = DoneMarker
    /\ resEnded
    /\ ~hbActive
    /\ activeBuilds = {}

\* -------------------------------------- claims on the read-only requests
\* C25: a step that answers GET /health or GET /api/builds changes nothing but
\* the answer given: the three maps, the build and its stream, the sandboxes'
\* files, the pending requests and the watcher are as before; the answer of
\* /health carries the sizes of activeBuilds, activeSandboxes and claudeSessions
\* at that moment, that of /api/builds the entries of activeBuilds.
C25_InfoNoSideEffects ==
  [][info' # info =>
       /\ UNCHANGED <<serverVars, buildVars, fileVars, sendVars, deleteVars,
                      clientVars, requests, watchVars, workerVars>>
       /\ info'.kind = "health" =>
            /\ info'.activeBuilds = Cardinality(activeBuilds)
            /\ info'.activeSandboxes = Cardinality(activeSandboxes)
            /\ info'.claudeSessions = Cardinality(claudeSessions)
       /\ info'.kind = "builds" => info'.builds = activeBuilds]_vars

\* C25 witness: /health was answered while a build was being served and its
\* sandbox was registered, and the build went on unharmed afterwards.
C25_Witness ==
  /\ info.kind = "health"
  /\ info.activeBuilds = 1 /\ info.activeSandboxes = 1 /\ info.claudeSessions = 0
  /\ bpc = "done" /\ "complete" \in Types(stream)
  /\ activeSandboxes = {sandbox} /\ claudeSessions = {sandbox}

\* ------------------------------------------ claims on the browser page
\* The lines a reader has to tolerate: the legacy sentinel, an event of a type
\* it does not know, and data that is not JSON.
Tolerated == {"[DONE]", "unknown", "badjson"}

\* C26: a step in which a read loop takes the [DONE] sentinel, a line of unknown
\* type or an unparseable data line leaves the message list, the stored session
\* id, the preview URL and the build status as they were, and leaves every read
\* loop running (the next line is read by the same loop).
C26_TolerantReader ==
  [][(linesRead' = linesRead + 1 /\ lastLine'.kind \in Tolerated) =>
       /\ UNCHANGED <<messages, builderSessionId, previewUrl, buildStatus>>
       /\ \A i \in DOMAIN fetches : fetches'[i].open = fetches[i].open]_vars

\* C26 witness: after a complete event had stored a session id and a preview URL,
\* an unparseable line was read, and the read loop is still running.
C26_Witness ==
  /\ linesRead = 2
  /\ lastLine.kind = "badjson"
  /\ builderSessionId = "S1" /\ previewUrl = "u1"
  /\ messages = <<"complete">>
  /\ buildStatus = "building"
  /\ Len(fetches) = 1 /\ fetches[1].open

\* C27: the build status becomes 'building' with the request left as it is (a
\* new app, not a change sent by sendMessage) only from 'pending_confirmation',
\* with a request pending and its confirmation screen shown.
C27_BuildingOnlyConfirmed ==
  [][(buildStatus' = "building" /\ buildStatus # "building"
        /\ buildRequest' = buildRequest) =>
       /\ buildStatus = "pending_confirmation"
       /\ buildRequest # NoRequest
       /\ confirmationStartTime]_vars

\* C29: the stored session id changes only in a step that reads a complete event
\* carrying a session id, and becomes that id; a step that posts a request posts
\* it to /chat/S when the session id S is stored, leaving messages and preview
\* as they are, and to /chat when none is stored, with an empty message list and
\* no preview.
C29_ContinuesHeldSession ==
  [][/\ builderSessionId' # builderSessionId =>
          /\ linesRead' = linesRead + 1
          /\ lastLine'.kind = "complete"
          /\ lastLine'.sid = builderSessionId'
     /\ (linesRead' = linesRead + 1 /\ lastLine'.kind = "complete"
           /\ lastLine'.sid # "") => builderSessionId' = lastLine'.sid
     /\ Len(fetches') = Len(fetches) + 1 =>
          /\ Last(fetches').endpoint = builderSessionId
          /\ builderSessionId # "" => (messages' = messages /\ previewUrl' = previewUrl)
          /\ builderSessionId = "" => (messages' = <<>> /\ previewUrl' = "")]_vars

\* C29 witness: the first request went to /chat; its stream brought complete with
\* session S1 and done; the change asked for next was posted to /chat/S1 with
\* the messages and the preview kept.
C29_Witness ==
  /\ Len(fetches) = 2
  /\ fetches[1].endpoint = "" /\ fetches[1].prompt \in Descriptions
  /\ fetches[2].endpoint = "S1" /\ fetches[2].prompt \in Changes
  /\ currentSessionId = "S1"
  /\ messages = <<"complete">>
  /\ previewUrl = "u1"

\* ------------------------------------- claims on the worker's conversation
\* The session id of the last init message that carried one, among the messages
\* the response log holds of the calls before call k; None when there is none.
CapturedBefore(k) ==
  LET inits == {i \in DOMAIN respLog :
                  /\ respLog[i].type = "system_init"
                  /\ respLog[i].sid # None
                  /\ respLog[i].call < k}
  IN IF inits = {} THEN None
     ELSE respLog[CHOOSE i \in inits : \A j \in inits : j <= i].sid

\* C28: a processPrompt call runs with resume equal to the session id of the
\* last init message that carried one in the calls before it, and without resume
\* (None) when there was none, as for the first prompt; the worker's sessionId
\* is the id captured last.
C28_ResumesLastCaptured ==
  /\ \A c \in inflight : c.resume = CapturedBefore(c.id)
  /\ sessionId = CapturedBefore(Len(calls) + 1)

\* C28 witness: the first prompt ran without resume and captured sid1, the second
\* resumed sid1 and captured sid2, and the third runs with resume sid2.
C28_Witness ==
  /\ Len(respLog) = 2
  /\ respLog[1].call = 1 /\ respLog[1].sid = "sid1"
  /\ respLog[2].call = 2 /\ respLog[2].sid = "sid2"
  /\ \E c \in inflight : c.id = 3 /\ c.resume = "sid2"

\* ------------------------------------------- claims on the watch of index.html
\* file_change events written to the watch stream.
FileChanges(s) == Len(SelectSeq(s, LAMBDA e : e.type = "file_change"))

\* The content the previous poll read, "" before the first read.
LastRead(reads) == IF reads = <<>> THEN "" ELSE Last(reads)

\* The last non-empty content among the contents read, "" when there is none.
RECURSIVE LastNonEmpty(_)
LastNonEmpty(reads) ==
  IF reads = <<>> THEN ""
  ELSE IF Last(reads) # "" THEN Last(reads)
  ELSE LastNonEmpty(SubSeq(reads, 1, Len(reads) - 1))

C31_OnePostPerRequest ==
  [][Len(fetches') = Len(fetches) + 1 =>
       (rendered[1] # buildStatus \/ rendered[2] # buildRequest)]_vars

\* C32: in the worker, isProcessing is true only while a processPrompt call is in
\* flight; after every command attempt it is false again.
C32_BusyOnlyWhileInFlight == isProcessing => inflight # {}

\* --------------------------------------------- claims on the end of a build
Aborted == \E i \in DOMAIN fetches : fetches[i].aborted

\* C33: after cancelBuild aborted the request of a build, the build status
\* eventually leaves 'building'.
C33_CancelLeavesBuilding ==
  (Aborted /\ buildStatus = "building") ~> (buildStatus # "building")

\* The response stream of request i closes in this step: its read loop is left
\* because the body ended, not by an abort.
Closes(i) ==
  /\ i \in DOMAIN fetches
  /\ fetches[i].open
  /\ ~fetches'[i].open
  /\ ~fetches'[i].aborted

\* C34: when the response stream of a build closes and no other is open, the
\* build status is a final one: it is not left at 'building'.
C34_NotBuildingAfterClose ==
  [][(\E i \in DOMAIN fetches :
        Closes(i) /\ \A j \in DOMAIN fetches : ~fetches'[j].open)
       => buildStatus' # "building"]_vars

\* -------------------------------------------------- claims on the registries
\* C35: every key of claudeSessions is a key of activeSandboxes, also after a
\* DELETE /api/sandbox/:sandboxId and after a failed build.
C35_SessionsAreRegistered == claudeSessions \subseteq activeSandboxes

\* C36: activeBuilds holds one entry for each build request in flight: requests
\* in flight have distinct build ids, and the entry of each of them is there.
C36_OneEntryPerRequest ==
  /\ \A j, k \in InFlight : j # k => requests[j].buildId # requests[k].buildId
  /\ \A k \in InFlight : requests[k].buildId \in activeBuilds

\* ------------------------------------------------ claims on the readiness poll
\* C37: the readiness poll of a build terminates.  It makes at most maxAttempts
\* checks, each wait leading to the next check with the attempt counted up; it
\* is left with serverReady by a check that found status 200, and is otherwise
\* left only by the last check, with the warning progress event and towards the
\* persistent setup, not towards the catch.
C37_PollTerminates ==
  /\ [](attempt \in 0..maxAttempts)
  /\ [](bpc \in {"check", "sleep"} => ~serverReady)
  /\ [][(bpc = "sleep" /\ bpc' # "sleep") =>
          (bpc' = "check" /\ attempt' = attempt + 1)]_vars
  /\ [][(bpc = "check" /\ bpc' # "check") =>
          \/ bpc' = "sleep" /\ ~serverReady' /\ attempt < maxAttempts
          \/ /\ bpc' = "upload" /\ serverReady'
             /\ stream' = stream \o <<Ev("progress", "ready"),
                                      Ev("progress", "persistent_setup")>>
          \/ /\ bpc' = "upload" /\ ~serverReady' /\ attempt = maxAttempts
             /\ stream' = stream \o <<Ev("progress", "warning"),
                                      Ev("progress", "persistent_setup")>>]_vars

\* C37 witness: a build whose server was not ready in any of the maxAttempts
\* checks wrote the warning and then its complete event.
C37_Witness ==
  /\ bpc = "done"
  /\ attempt = maxAttempts
  /\ ~serverReady
  /\ \E i, j \in DOMAIN stream :
       /\ i < j
       /\ stream[i] = Ev("progress", "warning")
       /\ stream[j].type = "complete"

\* ---------------------------------------------- claims on the confirmation
\* C38: a transcript of the user's speech sets the build status to 'building'
\* only when it is finished, the status is 'pending_confirmation', a build
\* request is pending, at least ConfirmWindow ms passed since the confirmation
\* was asked for and the transcript has a confirmation word; the build request
\* is left as it is, and nothing else of the page changes.
C38_VoiceConfirmsOnlyPending ==
  [][(voiceLog' # voiceLog /\ voiceLog'.line = "voice") =>
       /\ buildStatus = "pending_confirmation"
       /\ buildRequest # NoRequest
       /\ confirmationStartTime
       /\ voiceLog'.elapsed >= ConfirmWindow
       /\ voiceLog'.said # "" /\ Confirms(voiceLog'.said)
       /\ buildStatus' = "building"
       /\ UNCHANGED <<buildRequest, confirmationStartTime, currentSessionId,
                      toolCalls, fetches, messages>>]_vars

\* C38 witness: a spoken confirmation has just set a pending request to
\* 'building'.
C38_Witness ==
  /\ voiceLog = [line |-> "voice", said |-> "yes", elapsed |-> ConfirmWindow]
  /\ buildStatus = "building"
  /\ buildRequest # NoRequest
  /\ rendered[1] = "pending_confirmation"

\* C39: a sendMessage tool call with no stored session id is refused and leaves
\* the build status and the build request as they are; with a stored session id
\* it sets the status to 'building' and the message as the build request; and the
\* stored session id is set only when a build is finished by its done event and
\* delivered a session id, to that id.
C39_SendNeedsSession ==
  [][/\ (toolCalls' # toolCalls /\ voiceLog'.line = "No active session found") =>
          /\ currentSessionId = ""
          /\ UNCHANGED <<buildStatus, buildRequest, currentSessionId, fetches>>
     /\ (toolCalls' # toolCalls /\ voiceLog'.line = "sendMessage") =>
          /\ currentSessionId # ""
          /\ buildStatus' = "building"
          /\ buildRequest'.description \in Changes
          /\ buildRequest'.callId = toolCalls'
          /\ UNCHANGED currentSessionId
     /\ currentSessionId' # currentSessionId =>
          /\ lastLine'.kind = "done" /\ linesRead' # linesRead
          /\ buildStatus' = "complete"
          /\ currentSessionId' # ""
          /\ \E i \in DOMAIN fetches :
               fetches[i].open /\ fetches[i].completeSandboxId = currentSessionId'
    ]_vars

\* C39 witness: after a finished build stored its session id, a sendMessage call
\* set the status to 'building' with the message as the request; an earlier call,
\* before any build, was refused.
C39_Witness ==
  /\ currentSessionId = "S1"
  /\ voiceLog = Logged("sendMessage")
  /\ buildStatus = "building"
  /\ buildRequest.description \in Changes

====
